---- MODULE Spec2Model ----
(***************************************************************************)
(* Model of the live transcription pipeline of speaktranscribe-live:       *)
(* the useSpeechRecognition hook (recognition controller and transcript    *)
(* assembly), the DuplicateSpeechDetector and SpeakerDiarization helpers   *)
(* and the stream acquisition of getAudioStream.                           *)
(*                                                                         *)
(* Text is a sequence of one-character strings, so that splitting,         *)
(* trimming, joining and concatenation are computed as the code computes   *)
(* them.  React state is a variable per useState cell; a ref is a variable *)
(* per useRef cell; the values a handler closure captured at the render    *)
(* that attached it are variables of their own (hIsRecording,              *)
(* hAudioSource), refreshed by the effect that re-attaches the handlers.   *)
(***************************************************************************)
EXTENDS Integers, Sequences, FiniteSets

VARIABLES
  \* ---- React state (useTranscriptionState, useAudioDevices)
  transcript, isRecording, error, hasRecognitionEnded, audioSource, deviceError,
  \* ---- values captured by the attached recognizer handlers
  hIsRecording, hAudioSource,
  \* ---- refs of useSpeechRecognition / useTranscriptionState
  recognitionRef, intentionalStopRef, finalTranscriptRef, interimResultsRef,
  interimSegmentRef, segmentsRef, speakersRef, recentPhrases, diar,
  audioStreamRef, audioContextRef, audioProcessorCleanupRef,
  \* ---- startRecording suspended at its await
  pendingStart,
  \* ---- environment: recognizer, media tracks, audio graph
  recState, stopSawFlag, nextStreamId, liveAudio, liveVideo, liveContexts,
  liveProcessors,
  \* ---- audio analysis: the SilenceDetector, and for each audio processor
  \*      the source kind its frame callback captured
  silence, frameSource,
  \* ---- a call of getAudioStream on its own: its arguments and its outcome
  acq,
  \* ---- calls of a helper on its own (the duplicate filter, the silence
  \*      detector, the diarizer, the error messages): the helper, the last
  \*      call's arguments and outcome, and what the calls so far were
  call,
  \* ---- useCallRecording: whether callStartTime and callEndTime hold a date,
  \*      isSaving, and for the call started last the call records persisted
  \*      and the runs of the automatic save
  recording,
  \* ---- Date.now()
  now,
  \* ---- history: the last step taken, and the automatic restarts in a row
  \*      since the last start request or accepted final result
  last, restarts

stateVars == <<transcript, isRecording, error, hasRecognitionEnded, audioSource,
               deviceError>>
closureVars == <<hIsRecording, hAudioSource>>
textVars == <<finalTranscriptRef, interimResultsRef, interimSegmentRef,
              segmentsRef, speakersRef, recentPhrases, diar>>
audioVars == <<audioStreamRef, audioContextRef, audioProcessorCleanupRef,
               nextStreamId, liveAudio, liveVideo, liveContexts, liveProcessors,
               silence, frameSource>>
vars == <<stateVars, closureVars, textVars, audioVars, recognitionRef,
          intentionalStopRef, pendingStart, recState, stopSawFlag, now, last,
          restarts, acq, call, recording>>

\* a null error message or recognizer reference
NULL == "null"
\* a null stream, context or processor reference (ids start at 1)
NoRef == 0
\* the energy of an empty frame, sqrt(0/0); energies are naturals otherwise
NaN == -1
\* the confidence computed from a NaN energy, 0/0
NaNConfidence == <<0, 0>>

(***************************************************************************)
(* Bounds of the model.                                                    *)
(***************************************************************************)
\* streams the environment hands out (bounds the number of acquisitions)
MaxStreams == 1
\* result events are delivered while the stored transcript is this short
MaxTranscriptLen == 2
\* automatic restarts counted by the restart history
MaxRestarts == 2
\* the clock (in units of 500 ms) stops advancing here
MaxNow == 4
\* calls of the duplicate filter on its own
MaxFilterCalls == 2
\* runs of the automatic save for one call
MaxAutoSaves == 2
\* frames given to the diarizer on its own
MaxDiarFrames == 5
\* the clock of the silence detector called on its own stops advancing here
MaxSilenceNow == 7

(***************************************************************************)
(* Text helpers: String.prototype.split / trim / toLowerCase / join.       *)
(***************************************************************************)
Lower(c) == IF c = "A" THEN "a" ELSE IF c = "B" THEN "b" ELSE c

toLowerCase(s) == [i \in 1..Len(s) |-> Lower(s[i])]

RECURSIVE split(_, _)
split(s, seps) ==
  IF s = <<>> THEN << <<>> >>
  ELSE LET rest == split(Tail(s), seps)
       IN IF Head(s) \in seps
          THEN << <<>> >> \o rest
          ELSE << <<Head(s)>> \o Head(rest) >> \o Tail(rest)

RECURSIVE trimStart(_)
trimStart(s) ==
  IF s # <<>> /\ Head(s) = " " THEN trimStart(Tail(s)) ELSE s

RECURSIVE trimEnd(_)
trimEnd(s) ==
  IF s # <<>> /\ s[Len(s)] = " " THEN trimEnd(SubSeq(s, 1, Len(s) - 1)) ELSE s

trim(s) == trimEnd(trimStart(s))

RECURSIVE join(_, _)
join(parts, sep) ==
  IF parts = <<>> THEN <<>>
  ELSE IF Len(parts) = 1 THEN parts[1]
  ELSE parts[1] \o sep \o join(Tail(parts), sep)

filterNonEmpty(parts) == SelectSeq(parts, LAMBDA p : Len(p) > 0)

Range(f) == {f[i] : i \in DOMAIN f}

\* the last n elements of a sequence (all of it when it is shorter)
lastUnits(seq, n) ==
  IF Len(seq) <= n THEN seq ELSE SubSeq(seq, Len(seq) - n + 1, Len(seq))

\* the elements of a sequence at the indices in K, in order
SubseqAt(seq, K) ==
  [j \in 1..Cardinality(K) |->
     seq[CHOOSE i \in K : Cardinality({k \in K : k <= i}) = j]]

(***************************************************************************)
(* DuplicateSpeechDetector                                                 *)
(***************************************************************************)
maxPhraseHistory == 10
\* the similarity threshold 0.75 as the fraction 3/4
ThresholdNum == 3
ThresholdDen == 4

breakIntoSentences(text) ==
  LET parts == split(text, {".", "!", "?"})
  IN filterNonEmpty([i \in 1..Len(parts) |-> trim(parts[i])])

wordSet(str) == Range(split(toLowerCase(str), {" "}))

\* intersection.size / union.size, kept as numerator and denominator
similarityScore(str1, str2) ==
  [num |-> Cardinality(wordSet(str1) \cap wordSet(str2)),
   den |-> Cardinality(wordSet(str1) \cup wordSet(str2))]

isDuplicate(phrase, history) ==
  \E i \in 1..Len(history) :
    LET s == similarityScore(phrase, history[i])
    IN s.num * ThresholdDen > ThresholdNum * s.den

\* a history that never takes a phrase
addToHistoryForgets(phrase, history) == history

\* a history that never lets a phrase go
addToHistoryUnbounded(phrase, history) == Append(history, phrase)

addToHistory(phrase, history) ==
  LET pushed == Append(history, phrase)
  IN IF Len(pushed) > maxPhraseHistory THEN Tail(pushed) ELSE pushed

\* a forEach that classifies every unit against the history as it was
\* before the call, and pushes the accepted units afterwards
checkPhrasesAtOnce(phrases, acc) ==
  [hasDuplicates |->
     acc.hasDuplicates \/ \E i \in 1..Len(phrases) :
                            isDuplicate(phrases[i], acc.history),
   cleanedPhrases |->
     acc.cleanedPhrases
       \o SelectSeq(phrases, LAMBDA p : ~isDuplicate(p, acc.history)),
   history |->
     lastUnits(acc.history
                 \o SelectSeq(phrases, LAMBDA p : ~isDuplicate(p, acc.history)),
               maxPhraseHistory)]

RECURSIVE checkPhrases(_, _)
\* the forEach of checkForDuplicates over the sentence units
checkPhrases(phrases, acc) ==
  IF phrases = <<>> THEN acc
  ELSE IF isDuplicate(Head(phrases), acc.history)
       THEN checkPhrases(Tail(phrases), [acc EXCEPT !.hasDuplicates = TRUE])
       ELSE checkPhrases(Tail(phrases),
              [acc EXCEPT !.cleanedPhrases = Append(@, Head(phrases)),
                          !.history = addToHistory(Head(phrases), @)])

checkForDuplicates(text, history) ==
  LET r == checkPhrases(breakIntoSentences(text),
             [hasDuplicates |-> FALSE, cleanedPhrases |-> <<>>,
              history |-> history])
  IN [hasDuplicates |-> r.hasDuplicates,
      cleanedText |-> join(r.cleanedPhrases, <<" ">>),
      history |-> r.history]

(***************************************************************************)
(* SpeakerDiarization.  A frame is abstracted to its length and its RMS    *)
(* energy in units of 0.001; the RMS of an empty frame is sqrt(0/0) = NaN. *)
(***************************************************************************)
\* energyThreshold 0.02 in units of 0.001
energyThreshold == 20
\* speakerChangeThreshold 0.3 as the fraction 3/10
ChangeNum == 3
ChangeDen == 10
\* the stability counter must exceed this before the speaker toggles
StabilityFrames == 3
\* speakers kept in speakersRef
SpeakerLimit == 5

EmptyFrame == [len |-> 0, rms |-> 0]

calculateEnergy(audioData) == IF audioData.len = 0 THEN NaN ELSE audioData.rms

DiarInit == [prevEnergy |-> 0, speakerId |-> 1, lastSpeakerId |-> 1,
             stabilityCounter |-> 0]

Min2(a, b) == IF a < b THEN a ELSE b
Max2(a, b) == IF a < b THEN b ELSE a

\* a denominator without the fallback to the energy of the frame
ratioDenominatorNoFallback(prevEnergy, energy) == prevEnergy

\* this.prevEnergy || energy: 0 and NaN are falsy
ratioDenominator(prevEnergy, energy) ==
  IF prevEnergy = 0 \/ prevEnergy = NaN THEN energy ELSE prevEnergy

\* normalizedRatio < speakerChangeThreshold, with normalizedRatio the smaller
\* of energy/denom and denom/energy; a comparison with NaN is false
ratioChanged(energy, denom) ==
  /\ energy # NaN
  /\ Min2(energy, denom) * ChangeDen < ChangeNum * Max2(energy, denom)

\* min(1.0, max(0.5, 1.0 - normalizedRatio)) as a fraction
confidenceOf(energy, denom) ==
  IF energy = NaN THEN NaNConfidence
  ELSE IF 2 * Min2(energy, denom) > Max2(energy, denom) THEN <<1, 2>>
  ELSE <<Max2(energy, denom) - Min2(energy, denom), Max2(energy, denom)>>

otherSpeaker(id) == IF id = 1 THEN 2 ELSE 1

\* a diarizer that toggles as soon as the counter reaches the debounce count
diarAfterTogglesEarly(d, energy, changed) ==
  IF changed /\ d.stabilityCounter + 1 >= StabilityFrames
  THEN [prevEnergy |-> energy, speakerId |-> otherSpeaker(d.speakerId),
        lastSpeakerId |-> otherSpeaker(d.speakerId), stabilityCounter |-> 0]
  ELSE [d EXCEPT !.prevEnergy = energy,
                 !.stabilityCounter = IF changed THEN @ + 1 ELSE 0]

\* the diarization state after a frame at or above the energy floor
diarAfter(d, energy, changed) ==
  IF changed /\ d.stabilityCounter + 1 > StabilityFrames
  THEN [prevEnergy |-> energy, speakerId |-> otherSpeaker(d.speakerId),
        lastSpeakerId |-> otherSpeaker(d.speakerId), stabilityCounter |-> 0]
  ELSE [d EXCEPT !.prevEnergy = energy,
                 !.stabilityCounter = IF changed THEN @ + 1 ELSE 0]

detectSpeakerChangeAt(d, energy) ==
  IF energy # NaN /\ energy < energyThreshold
  THEN [diar |-> d, speakerId |-> d.lastSpeakerId, confidence |-> <<1, 2>>]
  ELSE LET after == diarAfter(d, energy,
                      ratioChanged(energy,
                                   ratioDenominator(d.prevEnergy, energy)))
       IN [diar |-> after, speakerId |-> after.lastSpeakerId,
           confidence |-> confidenceOf(energy,
                            ratioDenominator(d.prevEnergy, energy))]

detectSpeakerChange(d, audioData) ==
  detectSpeakerChangeAt(d, calculateEnergy(audioData))

(***************************************************************************)
(* SilenceDetector.  Time is Date.now() in units of 500 ms; a frame's RMS  *)
(* is in units of 0.001, so 20*log10(rms) < -50 dB is rms*rms < 10.        *)
(***************************************************************************)
\* silenceStart: null
NoTime == 0
\* silenceThreshold -50 dB as the square of the RMS in units of 0.001
SilencePowerLimit == 10
\* minSilenceDuration 1000 ms in units of 500 ms
minSilenceDuration == 2

SilenceInit == [silenceStart |-> NoTime, isCurrentlySilent |-> FALSE]

\* db < this.silenceThreshold; the level of an empty frame is NaN and
\* compares false
belowSilenceThreshold(audioData) ==
  audioData.len > 0 /\ audioData.rms * audioData.rms < SilencePowerLimit

\* a detector whose latch outlives a frame that is not below the threshold
isSilentAfterKeepsLatch(sd, audioData, t) ==
  IF belowSilenceThreshold(audioData)
  THEN IF sd.silenceStart = NoTime THEN [sd EXCEPT !.silenceStart = t]
       ELSE IF t - sd.silenceStart > minSilenceDuration
            THEN [sd EXCEPT !.isCurrentlySilent = TRUE]
            ELSE sd
  ELSE [sd EXCEPT !.silenceStart = NoTime]

\* the detector after isSilent(audioData) at time t
isSilentAfter(sd, audioData, t) ==
  IF belowSilenceThreshold(audioData)
  THEN IF sd.silenceStart = NoTime THEN [sd EXCEPT !.silenceStart = t]
       ELSE IF t - sd.silenceStart > minSilenceDuration
            THEN [sd EXCEPT !.isCurrentlySilent = TRUE]
            ELSE sd
  ELSE SilenceInit

\* what isSilent(audioData) returns at time t
isSilent(sd, audioData, t) == isSilentAfter(sd, audioData, t).isCurrentlySilent

(***************************************************************************)
(* useSpeechRecognition: transcript assembly                               *)
(***************************************************************************)
\* detectSpeaker: the speaker of a new segment, the speakers list and the
\* diarization state it leaves
detectSpeaker(speakers, d) ==
  LET r == detectSpeakerChange(d, EmptyFrame)
      found == {i \in 1..Len(speakers) : speakers[i].id = r.speakerId}
      newSpeaker == [id |-> r.speakerId, name |-> r.speakerId,
                     confidence |-> r.confidence]
  IN IF found # {}
     THEN [speaker |-> speakers[CHOOSE i \in found : \A j \in found : i <= j],
           speakers |-> speakers, diar |-> r.diar]
     ELSE [speaker |-> newSpeaker,
           speakers |-> IF Len(speakers) < SpeakerLimit
                        THEN Append(speakers, newSpeaker) ELSE speakers,
           diar |-> r.diar]

\* a new final segment put in front of the list
updateTranscriptionSegmentsPrepends(st, text, isFinal, source, t) ==
  IF ~isFinal /\ source # "system" /\ source # "meeting" THEN st
  ELSE IF isFinal
       THEN [st EXCEPT !.segs = <<[text |-> text, timestamp |-> t,
                                   speaker |-> detectSpeaker(st.speakers,
                                                             st.diar).speaker]>>
                                  \o @,
                       !.interimSeg = <<>>]
       ELSE [st EXCEPT !.interimSeg = text]

\* the refs a result or a stop works on, as one record:
\*   recent (recentPhrases), segs (segmentsRef), speakers (speakersRef),
\*   diar, interimSeg (interimSegmentRef)
updateTranscriptionSegments(st, text, isFinal, source, t) ==
  IF ~isFinal /\ source # "system" /\ source # "meeting" THEN st
  ELSE IF isFinal
       THEN LET ds == detectSpeaker(st.speakers, st.diar)
            IN [st EXCEPT !.segs = Append(@, [text |-> text, timestamp |-> t,
                                              speaker |-> ds.speaker]),
                          !.speakers = ds.speakers,
                          !.diar = ds.diar,
                          !.interimSeg = <<>>]
       ELSE [st EXCEPT !.interimSeg = text]

RECURSIVE processResults(_, _, _, _)
\* the for loop of handleResult over event.results from event.resultIndex;
\* loop carries currentInterimTranscript and newFinalTranscript
processResults(results, loop, source, t) ==
  IF results = <<>> THEN loop
  ELSE
    LET r == Head(results)
        chk == checkForDuplicates(r.transcript, loop.st.recent)
        st1 == [loop.st EXCEPT !.recent = chk.history]
    IN IF r.isFinal
       THEN IF ~chk.hasDuplicates /\ chk.cleanedText # <<>>
            THEN processResults(Tail(results),
                   [loop EXCEPT
                      !.newFinal = @ \o chk.cleanedText \o <<" ">>,
                      !.st = updateTranscriptionSegments(st1, chk.cleanedText,
                                                         TRUE, source, t)],
                   source, t)
            ELSE processResults(Tail(results), [loop EXCEPT !.st = st1],
                                source, t)
       ELSE LET cur == loop.cur \o r.transcript
            IN processResults(Tail(results),
                 [loop EXCEPT
                    !.cur = cur,
                    !.st = updateTranscriptionSegments(loop.st, cur, FALSE,
                                                       source, t)],
                 source, t)

textRefs == [recent |-> recentPhrases, segs |-> segmentsRef,
             speakers |-> speakersRef, diar |-> diar,
             interimSeg |-> interimSegmentRef]

(***************************************************************************)
(* getSpeechErrorMessage                                                   *)
(***************************************************************************)
KnownErrorCodes == {"no-speech", "aborted", "audio-capture", "network",
                    "not-allowed", "service-not-allowed", "bad-grammar",
                    "language-not-supported"}

errorMessages(code) ==
  CASE code = "no-speech" -> "No speech was detected. Please try again."
    [] code = "aborted" -> "Speech recognition was aborted."
    [] code = "audio-capture" ->
         "No microphone was found or microphone access was denied."
    [] code = "network" ->
         "Network error occurred. Please check your connection."
    [] code = "not-allowed" ->
         "Microphone access was denied. Please allow microphone access in your browser settings."
    [] code = "service-not-allowed" ->
         "Speech recognition service is not allowed."
    [] code = "bad-grammar" ->
         "Error in speech grammar or language configuration."
    [] code = "language-not-supported" ->
         "The selected language is not supported."

\* errorMessages is an object literal: errorMessages[errorCode] also finds
\* the properties it inherits from Object.prototype, which are functions (or
\* the prototype itself) and truthy
ObjectPrototypeKeys ==
  {"constructor", "toString", "toLocaleString", "valueOf", "hasOwnProperty",
   "isPrototypeOf", "propertyIsEnumerable", "__proto__"}

inheritedProperty(code) ==
  IF code = "__proto__" THEN "[Object.prototype]"
  ELSE "[a function of Object.prototype]"

getSpeechErrorMessage(errorCode) ==
  IF errorCode \in KnownErrorCodes THEN errorMessages(errorCode)
  ELSE IF errorCode \in ObjectPrototypeKeys THEN inheritedProperty(errorCode)
  ELSE "An unknown error occurred."

(***************************************************************************)
(* getAudioStream.  env is what the browser answers during the call:       *)
(* display (getDisplayMedia): "audio", "noaudio" or "throw"; userMedia     *)
(* (getUserMedia): "ok" or "throw"; enumerate (enumerateDevices): "ok" or  *)
(* "throw".  The result names the path that produced the stream ("none"    *)
(* for null) and whether display video tracks are left live.               *)
(***************************************************************************)
AudioSources == {"microphone", "headphones", "system", "meeting",
                 "multimedia", "voip"}
DirectSources == {"microphone", "headphones"}
LoopbackSources == {"system", "meeting", "multimedia", "voip"}
\* the kinds the modelled collaborators ask for: a direct input and a
\* loopback kind
RequestedSources == {"microphone", "system"}

Envs == [display : {"audio", "noaudio", "throw"},
         userMedia : {"ok", "throw"},
         enumerate : {"ok", "throw"}]

\* getHeadphonesDeviceId never raises: an enumeration failure yields undefined
getHeadphonesDeviceId(env) ==
  IF env.enumerate = "ok" THEN "deviceId" ELSE "undefined"

\* the capture options: an object with some of the keys echoCancellation,
\* noiseSuppression, autoGainControl, sampleRate, channelCount
DEFAULT_OPTIONS ==
  [echoCancellation |-> TRUE, noiseSuppression |-> TRUE,
   autoGainControl |-> TRUE, sampleRate |-> 16000, channelCount |-> 1]

SOURCE_SPECIFIC_OPTIONS(source) ==
  CASE source \in {"microphone", "headphones"} ->
         [echoCancellation |-> TRUE, noiseSuppression |-> TRUE,
          autoGainControl |-> TRUE]
    [] source \in {"system", "multimedia"} ->
         [echoCancellation |-> FALSE, noiseSuppression |-> FALSE,
          autoGainControl |-> FALSE]
    [] source \in {"meeting", "voip"} ->
         [echoCancellation |-> FALSE, noiseSuppression |-> TRUE,
          autoGainControl |-> TRUE]

\* the object spread {...a, ...b}
merge(a, b) ==
  [k \in DOMAIN a \cup DOMAIN b |-> IF k \in DOMAIN b THEN b[k] ELSE a[k]]

\* an options argument: given or left out, and its value
NoOptions == [given |-> FALSE, value |-> [k \in {} |-> TRUE]]
GivenOptions(value) == [given |-> TRUE, value |-> value]

\* the options parameter with its default value
optionsParameter(arg) == IF arg.given THEN arg.value ELSE DEFAULT_OPTIONS

mergedOptions(source, options) ==
  merge(merge(DEFAULT_OPTIONS, SOURCE_SPECIFIC_OPTIONS(source)), options)

\* the options startRecording passes to getAudioStream
startRecordingOptions ==
  GivenOptions([echoCancellation |-> TRUE, noiseSuppression |-> TRUE,
                autoGainControl |-> TRUE, sampleRate |-> 16000,
                channelCount |-> 1])

\* the audio member of the getDisplayMedia options
displayAudio(merged) ==
  [echoCancellation |-> merged.echoCancellation,
   noiseSuppression |-> merged.noiseSuppression,
   autoGainControl |-> merged.autoGainControl,
   sampleRate |-> IF merged.sampleRate = 0 THEN 16000 ELSE merged.sampleRate,
   channelCount |-> IF merged.channelCount = 0 THEN 1
                    ELSE merged.channelCount]

userMediaRequest(audio) == [api |-> "getUserMedia", audio |-> audio]
displayMediaRequest(merged) ==
  [api |-> "getDisplayMedia", audio |-> displayAudio(merged)]

\* how a capture ends: it returns a stream (path "direct" or "display") or
\* it throws; requests are the browser calls made, video says whether video
\* tracks of a display capture are left live
Returned(path, video, requests) ==
  [completion |-> "return", path |-> path, video |-> video,
   requests |-> requests]
Threw(requests) ==
  [completion |-> "throw", path |-> "none", video |-> FALSE,
   requests |-> requests]

\* await navigator.mediaDevices.getUserMedia({audio, video: false})
captureUserMedia(audio, env, requests) ==
  IF env.userMedia = "ok"
  THEN Returned("direct", FALSE, Append(requests, userMediaRequest(audio)))
  ELSE Threw(Append(requests, userMediaRequest(audio)))

\* the branch of the direct-input kinds
captureDirect(source, merged, env) ==
  captureUserMedia(
    IF source = "headphones"
    THEN merge(merged, [deviceId |-> getHeadphonesDeviceId(env)])
    ELSE merged,
    env, <<>>)

\* a getDisplayMedia that raises instead of falling back
captureLoopbackNoFallback(merged, env) ==
  IF env.display = "audio"
  THEN Returned("display", TRUE, <<displayMediaRequest(merged)>>)
  ELSE Threw(<<displayMediaRequest(merged)>>)

\* the branch of the loopback kinds: getDisplayMedia, and getUserMedia when
\* it yields no audio track (its video tracks are stopped) or raises
captureLoopback(merged, env) ==
  IF env.display = "audio"
  THEN Returned("display", TRUE, <<displayMediaRequest(merged)>>)
  ELSE captureUserMedia(merged, env, <<displayMediaRequest(merged)>>)

\* the body of the try block of getAudioStream
getAudioStreamBody(source, options, env) ==
  IF source \in DirectSources
  THEN captureDirect(source, mergedOptions(source, options), env)
  ELSE IF source \in LoopbackSources
       THEN captureLoopback(mergedOptions(source, options), env)
       ELSE Threw(<<>>)

\* an outer handler that lets the exception through
rethrow(body) == body

\* catch (err) { return null }
catchAll(body) ==
  IF body.completion = "throw"
  THEN [body EXCEPT !.completion = "return", !.path = "none"]
  ELSE body

\* getAudioStream(source, options) called with the argument arg
getAudioStreamCall(source, arg, env) ==
  catchAll(getAudioStreamBody(source, optionsParameter(arg), env))

\* getAudioStream as startRecording calls it
getAudioStream(source, env) ==
  getAudioStreamCall(source, startRecordingOptions, env)

\* what the caller of getAudioStream receives, Promise<MediaStream | null>:
\* a stream of audio tracks or null; the branch that produced the stream is
\* written to the console only
returnValue(out) ==
  IF out.completion = "return" /\ out.path # "none" THEN "MediaStream"
  ELSE "null"

(***************************************************************************)
(* The recognizer (Web Speech API) as the hook drives it.                  *)
(*   recState: "idle", "running", "stopping" (stop() called, results may   *)
(*   still be delivered, end pending), "ending" (an error was reported,    *)
(*   end pending).  start() raises InvalidStateError unless the recognizer  *)
(*   is idle; stop() is ignored unless it is running.                      *)
(***************************************************************************)

(***************************************************************************)
(* What the recognizer delivers.                                           *)
(***************************************************************************)
Final(t) == [transcript |-> t, isFinal |-> TRUE]
Interim(t) == [transcript |-> t, isFinal |-> FALSE]

ResultEvents ==
  { << Final(<<"a">>) >>,
    << Final(<<"a", ".", " ", "b">>) >>,
    << Interim(<<"b">>) >> }

\* the audio frames the processor delivers: digital silence, speech, and
\* speech ten times stronger
Frames == {[len |-> 4, rms |-> 0], [len |-> 4, rms |-> 30],
           [len |-> 4, rms |-> 300]}

\* no audio processor has a frame callback
NoFrames == [id \in {} |-> "none"]

\* the options arguments callers pass to getAudioStream: none, an empty
\* object, the options of startRecording, one override
CallArgs == {NoOptions, GivenOptions([k \in {} |-> TRUE]),
             startRecordingOptions,
             GivenOptions([echoCancellation |-> TRUE])}

\* getAudioStream has not been called on its own
NoCall == <<>>

\* no helper has been called on its own
NoHelper == [helper |-> "none"]

\* a candidate of eleven sentence units, one more than the history holds
LongText ==
  <<"a", ".", "b", ".", "c", ".", "d", ".", "e", ".", "f", ".", "g", ".",
    "h", ".", "i", ".", "j", ".", "k">>

\* the candidate texts given to the duplicate filter on its own: one unit,
\* the unit in upper case, three words, the three words and a fourth, a
\* unit said twice, and the long candidate
FilterTexts ==
  { <<"a">>, <<"A">>, <<"a", " ", "b", " ", "c">>,
    <<"a", " ", "b", " ", "c", " ", "d">>,
    <<"a", ".", " ", "a">>, LongText }

\* the frames given to the diarizer on its own: those of the processor and
\* the empty frame of detectSpeaker
DiarFrames == Frames \cup {EmptyFrame}

\* the codes given to getSpeechErrorMessage on its own: the codes of the Web
\* Speech API, a code it does not define, the empty code, and two names of
\* properties every object has
ErrorCodeInputs ==
  KnownErrorCodes \cup {"unknown-code", "", "toString", "constructor"}

\* before the first call of the silence detector or the diarizer on its own
NoSilenceCall == [helper |-> "silence", quiet |-> FALSE, quietSince |-> NoTime,
                  at |-> NoTime, out |-> FALSE, cleared |-> FALSE]
NoDiarCall == [helper |-> "diar", n |-> 0, energies |-> {}, out |-> 1]

\* before the first call of the duplicate filter on its own
NoText == <<"-">>
NoFilterCall == [helper |-> "filter", n |-> 0, text |-> NoText,
                 prevText |-> NoText, before |-> <<>>, kept |-> <<>>,
                 cleanedText |-> <<>>, hasDuplicates |-> FALSE,
                 accepted |-> <<>>]

\* useCallRecording before a call: no start or end time, nothing being saved
NoCallRecording == [callStartTime |-> FALSE, callEndTime |-> FALSE,
                    isSaving |-> FALSE, saved |-> 0, autoSaves |-> 0]

\* how dbService.saveCallRecord settles
SaveOutcomes == {"saved", "failed"}

\* the error codes the modelled recognizer reports: one transient, one fatal
ErrorCodes == {"no-speech", "not-allowed"}

(***************************************************************************)
(* Initial state: the hook is mounted, the first effects have run and the   *)
(* source kind has been picked (changeAudioSource while nothing is         *)
(* recorded stores the kind and clears the error; the effect then          *)
(* re-attaches the handlers).                                              *)
(***************************************************************************)
Init ==
  /\ recognitionRef \in {"rec", NULL}
  /\ audioSource \in RequestedSources
  /\ transcript = <<>>
  /\ isRecording = FALSE
  /\ error = IF recognitionRef = NULL /\ audioSource = "microphone"
             THEN "Speech recognition is not supported in this browser. Try using Chrome, Edge, or Safari."
             ELSE NULL
  /\ hasRecognitionEnded = FALSE
  /\ deviceError = NULL
  /\ hIsRecording = FALSE
  /\ hAudioSource = audioSource
  /\ intentionalStopRef = FALSE
  /\ finalTranscriptRef = <<>>
  /\ interimResultsRef = <<>>
  /\ interimSegmentRef = <<>>
  /\ segmentsRef = <<>>
  /\ speakersRef = <<>>
  /\ recentPhrases = <<>>
  /\ diar = DiarInit
  /\ audioStreamRef = NoRef
  /\ audioContextRef = NoRef
  /\ audioProcessorCleanupRef = NoRef
  /\ pendingStart = "none"
  /\ recState = "idle"
  /\ stopSawFlag = TRUE
  /\ nextStreamId = 1
  /\ liveAudio = {}
  /\ liveVideo = {}
  /\ liveContexts = {}
  /\ liveProcessors = {}
  /\ now = 1
  /\ silence = SilenceInit
  /\ frameSource = NoFrames
  /\ acq = NoCall
  /\ call = NoHelper
  /\ recording = NoCallRecording
  /\ last = [op |-> "mount", note |-> ""]
  /\ restarts = 0

\* error: deviceError || error, as the hook returns it
combinedError == IF deviceError # NULL THEN deviceError ELSE error

(***************************************************************************)
(* The handlers of useSpeechRecognition, as functions of the store: the    *)
(* record of every cell a handler reads or writes.                         *)
(***************************************************************************)
Store ==
  [transcript |-> transcript, isRecording |-> isRecording, error |-> error,
   hasRecognitionEnded |-> hasRecognitionEnded, audioSource |-> audioSource,
   intentionalStopRef |-> intentionalStopRef,
   finalTranscriptRef |-> finalTranscriptRef,
   interimResultsRef |-> interimResultsRef,
   st |-> textRefs,
   audioStreamRef |-> audioStreamRef, audioContextRef |-> audioContextRef,
   audioProcessorCleanupRef |-> audioProcessorCleanupRef,
   pendingStart |-> pendingStart, recState |-> recState,
   stopSawFlag |-> stopSawFlag, nextStreamId |-> nextStreamId,
   liveAudio |-> liveAudio, liveVideo |-> liveVideo,
   liveContexts |-> liveContexts, liveProcessors |-> liveProcessors,
   silence |-> silence, frameSource |-> frameSource]

Apply(s) ==
  /\ transcript' = s.transcript
  /\ isRecording' = s.isRecording
  /\ error' = s.error
  /\ hasRecognitionEnded' = s.hasRecognitionEnded
  /\ audioSource' = s.audioSource
  /\ intentionalStopRef' = s.intentionalStopRef
  /\ finalTranscriptRef' = s.finalTranscriptRef
  /\ interimResultsRef' = s.interimResultsRef
  /\ recentPhrases' = s.st.recent
  /\ segmentsRef' = s.st.segs
  /\ speakersRef' = s.st.speakers
  /\ diar' = s.st.diar
  /\ interimSegmentRef' = s.st.interimSeg
  /\ audioStreamRef' = s.audioStreamRef
  /\ audioContextRef' = s.audioContextRef
  /\ audioProcessorCleanupRef' = s.audioProcessorCleanupRef
  /\ pendingStart' = s.pendingStart
  /\ recState' = s.recState
  /\ stopSawFlag' = s.stopSawFlag
  /\ nextStreamId' = s.nextStreamId
  /\ liveAudio' = s.liveAudio
  /\ liveVideo' = s.liveVideo
  /\ liveContexts' = s.liveContexts
  /\ liveProcessors' = s.liveProcessors
  /\ silence' = s.silence
  /\ frameSource' = s.frameSource

\* recognitionRef.current.stop(): the recognizer sees the flag as it is now
recognizerStop(s) ==
  [s EXCEPT !.recState = IF @ = "running" THEN "stopping" ELSE @,
            !.stopSawFlag = s.intentionalStopRef]

\* audioStreamRef.current.getTracks().forEach(track => track.stop())
releaseStream(s) ==
  IF s.audioStreamRef # NoRef
  THEN [s EXCEPT !.liveAudio = @ \ {s.audioStreamRef},
                 !.audioStreamRef = NoRef]
  ELSE s

\* audioProcessorCleanupRef.current(): disconnect processor and source
releaseProcessor(s) ==
  IF s.audioProcessorCleanupRef # NoRef
  THEN [s EXCEPT !.liveProcessors = @ \ {s.audioProcessorCleanupRef},
                 !.frameSource = [id \in DOMAIN @ \ {s.audioProcessorCleanupRef}
                                    |-> @[id]],
                 !.audioProcessorCleanupRef = NoRef]
  ELSE s

\* audioContextRef.current.close()
releaseContext(s) ==
  IF s.audioContextRef # NoRef
  THEN [s EXCEPT !.liveContexts = @ \ {s.audioContextRef},
                 !.audioContextRef = NoRef]
  ELSE s

\* a flush that leaves the interim results in their buffer
flushInterimKeepsBuffer(s, t) ==
  IF s.interimResultsRef # <<>>
  THEN [s EXCEPT !.finalTranscriptRef = @ \o s.interimResultsRef,
                 !.transcript = s.finalTranscriptRef \o s.interimResultsRef]
  ELSE s

\* stopRecording: the flush of the interim results into the transcript
flushInterim(s, t) ==
  IF s.interimResultsRef # <<>>
  THEN LET final == s.finalTranscriptRef \o s.interimResultsRef
           st1 == IF s.st.interimSeg # <<>>
                  THEN [updateTranscriptionSegments(s.st, s.st.interimSeg,
                                                    TRUE, s.audioSource, t)
                          EXCEPT !.interimSeg = <<>>]
                  ELSE s.st
       IN [s EXCEPT !.finalTranscriptRef = final,
                    !.interimResultsRef = <<>>,
                    !.st = st1,
                    !.transcript = final]
  ELSE s

\* a stopRecording that leaves the audio context open and referenced
stopRecordingKeepsContext(s, t) ==
  IF recognitionRef # NULL
  THEN LET s1 == recognizerStop([s EXCEPT !.intentionalStopRef = TRUE])
           s2 == flushInterim([s1 EXCEPT !.isRecording = FALSE], t)
       IN releaseProcessor(releaseStream(s2))
  ELSE s

stopRecording(s, t) ==
  IF recognitionRef # NULL
  THEN LET s1 == recognizerStop([s EXCEPT !.intentionalStopRef = TRUE])
           s2 == flushInterim([s1 EXCEPT !.isRecording = FALSE], t)
       IN releaseContext(releaseProcessor(releaseStream(s2)))
  ELSE s

\* a start that leaves the speakers list and the silence detector alone
startRecordingBeginKeepsDetectors(s, source) ==
  LET s0 == [s EXCEPT !.error = NULL, !.hasRecognitionEnded = FALSE]
  IN IF recognitionRef = NULL
     THEN [s0 EXCEPT !.error =
             "Speech recognition is not supported in this browser."]
     ELSE [s0 EXCEPT
             !.finalTranscriptRef = <<>>,
             !.interimResultsRef = <<>>,
             !.intentionalStopRef = FALSE,
             !.st = [recent |-> <<>>, segs |-> <<>>,
                     speakers |-> s.st.speakers,
                     diar |-> DiarInit, interimSeg |-> <<>>],
             !.pendingStart = IF source = "none" THEN s.audioSource
                              ELSE source]

\* startRecording up to its await of getAudioStream
startRecordingBegin(s, source) ==
  LET s0 == [s EXCEPT !.error = NULL, !.hasRecognitionEnded = FALSE]
  IN IF recognitionRef = NULL
     THEN [s0 EXCEPT !.error =
             "Speech recognition is not supported in this browser."]
     ELSE [s0 EXCEPT
             !.finalTranscriptRef = <<>>,
             !.interimResultsRef = <<>>,
             !.intentionalStopRef = FALSE,
             !.st = [recent |-> <<>>, segs |-> <<>>, speakers |-> <<>>,
                     diar |-> DiarInit, interimSeg |-> <<>>],
             !.silence = SilenceInit,
             !.pendingStart = IF source = "none" THEN s.audioSource
                              ELSE source]

couldNotAccess(source) ==
  CASE source = "microphone" ->
         "Could not access microphone audio. Please check permissions."
    [] source = "headphones" ->
         "Could not access headphones audio. Please check permissions."
    [] source = "system" ->
         "Could not access system audio. Please check permissions."
    [] source = "meeting" ->
         "Could not access meeting audio. Please check permissions."
    [] source = "multimedia" ->
         "Could not access multimedia audio. Please check permissions."
    [] source = "voip" ->
         "Could not access voip audio. Please check permissions."

\* startRecording from the answer of getAudioStream on
startRecordingResume(s, env) ==
  LET r == getAudioStream(s.pendingStart, env)
      id == s.nextStreamId
      s0 == [s EXCEPT !.pendingStart = "none"]
  IN IF r.completion = "throw"
     THEN \* an exception out of the await: the catch
          [s0 EXCEPT !.error =
             "Failed to start speech recognition. Please try again."]
     ELSE IF r.path = "none"
     THEN [s0 EXCEPT !.error = couldNotAccess(s.pendingStart)]
     ELSE LET s1 == [s0 EXCEPT
                       !.nextStreamId = id + 1,
                       !.liveAudio = @ \cup {id},
                       !.liveVideo = IF r.video THEN @ \cup {id} ELSE @,
                       !.audioStreamRef = id,
                       !.audioContextRef = id,
                       !.liveContexts = @ \cup {id},
                       !.audioProcessorCleanupRef = id,
                       !.liveProcessors = @ \cup {id},
                       !.frameSource = [i \in DOMAIN @ \cup {id} |->
                                          IF i = id THEN s.pendingStart
                                          ELSE @[i]]]
          IN IF s.recState # "idle"
             THEN \* recognitionRef.current.start() raises: the catch
                  [s1 EXCEPT !.error =
                     "Failed to start speech recognition. Please try again."]
             ELSE [s1 EXCEPT !.recState = "running", !.isRecording = TRUE]

handleResult(s, results, source, t) ==
  LET r == processResults(results,
             [cur |-> <<>>, newFinal |-> <<>>, st |-> s.st], source, t)
      final == IF r.newFinal # <<>> THEN s.finalTranscriptRef \o r.newFinal
               ELSE s.finalTranscriptRef
  IN [s EXCEPT !.st = r.st,
               !.finalTranscriptRef = final,
               !.interimResultsRef = r.cur,
               !.transcript = final \o r.cur]

handleError(s, code) ==
  [s EXCEPT !.error = getSpeechErrorMessage(code),
            !.hasRecognitionEnded = IF ~s.intentionalStopRef THEN TRUE ELSE @,
            !.isRecording = FALSE]

\* whether handleEnd calls recognitionRef.current.start(); closureIsRecording
\* is the isRecording its closure captured
handleEndRestarts(s, closureIsRecording) ==
  LET flag == IF ~s.intentionalStopRef THEN s.intentionalStopRef ELSE FALSE
  IN closureIsRecording /\ recognitionRef # NULL /\ ~flag

handleEnd(s, closureIsRecording) ==
  LET s1 == IF ~s.intentionalStopRef
            THEN [s EXCEPT !.hasRecognitionEnded = TRUE,
                           !.isRecording = FALSE]
            ELSE [s EXCEPT !.intentionalStopRef = FALSE]
  IN IF handleEndRestarts(s, closureIsRecording)
     THEN [s1 EXCEPT !.recState = "running"]
     ELSE s1

resetTranscript(s) ==
  [s EXCEPT !.transcript = <<>>, !.finalTranscriptRef = <<>>,
            !.interimResultsRef = <<>>, !.hasRecognitionEnded = FALSE]

\* the onAudioProcess callback of startRecording for a frame, in a processor
\* created for the source kind source
onAudioProcess(s, source, audioData, t) ==
  [s EXCEPT !.silence = isSilentAfter(@, audioData, t),
            !.st.diar = IF source \in {"system", "meeting"}
                        THEN detectSpeakerChange(@, audioData).diar
                        ELSE @]

\* changeAudioSource: its release of the stream, context and processor
releaseResources(s) == releaseProcessor(releaseContext(releaseStream(s)))

\* changeAudioSource, through the synchronous part of the startRecording it
\* awaits; isRecording is the value of the render that made the callback
changeAudioSource(s, source, t) ==
  LET s1 == IF s.isRecording THEN stopRecording(s, t) ELSE s
      s2 == releaseResources(s1)
      s3 == [s2 EXCEPT !.audioSource = source, !.error = NULL]
  IN IF s.isRecording THEN startRecordingBegin(s3, source) ELSE s3

\* startCall(source) of useCallRecording for a session that is not recording:
\* changeAudioSource(source) completes without suspending, then
\* startRecording() runs with the audioSource of the render that made it
startCall(s, source, t) ==
  startRecordingBegin(changeAudioSource(s, source, t), s.audioSource)

\* clearTranscript of useCallRecording: resetTranscript, and both times null
clearTranscript(s) == resetTranscript(s)
clearTimes(r) == [r EXCEPT !.callStartTime = FALSE, !.callEndTime = FALSE]

\* endCall of useCallRecording with a call started and a transcript to save,
\* up to its await of dbService.saveCallRecord: stopRecording() and
endCallBegun(r) == [r EXCEPT !.callEndTime = TRUE, !.isSaving = TRUE]

\* endCall from the settling of the save on: the record is persisted and the
\* transcript cleared, or the error is reported; isSaving is false again
endCallResume(s, outcome) ==
  IF outcome = "saved" THEN clearTranscript(s) ELSE s
endCallSettled(r, outcome) ==
  IF outcome = "saved"
  THEN [clearTimes(r) EXCEPT !.saved = @ + 1, !.isSaving = FALSE]
  ELSE [r EXCEPT !.isSaving = FALSE]

(***************************************************************************)
(* Actions: one per request of a collaborator, recognizer event, effect    *)
(* or timer.                                                               *)
(***************************************************************************)
\* history: the handler that ran and what it did ("restarted": handleEnd
\* called start(); "accepted": handleResult appended final text; "released":
\* stopRecording stopped a stream it held; "cleared": startRecording reset
\* refs that a session had all left behind)
Did(op, note) == last' = [op |-> op, note |-> note]

\* every per-session ref and detector that startRecording resets holds
\* something of an earlier session
leftBehind ==
  /\ segmentsRef # <<>> /\ recentPhrases # <<>> /\ speakersRef # <<>>
  /\ intentionalStopRef
  /\ silence # SilenceInit /\ diar # DiarInit

\* a start request, optionally pinned to a source kind, up to its await
StartRecording(source) ==
  /\ pendingStart = "none"
  /\ Apply(startRecordingBegin(Store, source))
  /\ restarts' = 0
  /\ Did("startRecording",
         IF recognitionRef # NULL /\ leftBehind THEN "cleared" ELSE "")
  /\ UNCHANGED <<acq, call, recording, closureVars, recognitionRef, deviceError, now>>

\* getAudioStream answers and startRecording runs to its end; the
\* environment hands out at most maxStreams streams
StartResumeWithin(env, maxStreams) ==
  /\ pendingStart # "none"
  /\ nextStreamId > maxStreams => getAudioStream(pendingStart, env).path = "none"
  /\ Apply(startRecordingResume(Store, env))
  /\ Did("startResume", "")
  /\ UNCHANGED <<acq, call, recording, closureVars, recognitionRef, deviceError, now, restarts>>

StartResume(env) == StartResumeWithin(env, MaxStreams)

StopRecording ==
  /\ Apply(stopRecording(Store, now))
  /\ Did("stopRecording",
         IF recognitionRef # NULL /\ audioStreamRef # NoRef THEN "released"
         ELSE "")
  /\ UNCHANGED <<acq, call, recording, closureVars, recognitionRef, deviceError, now, restarts>>

ChangeAudioSource(source) ==
  /\ isRecording => pendingStart = "none"
  /\ Apply(changeAudioSource(Store, source, now))
  /\ restarts' = IF isRecording THEN 0 ELSE restarts
  /\ Did("changeAudioSource", "")
  /\ UNCHANGED <<acq, call, recording, closureVars, recognitionRef, deviceError, now>>

ResetTranscript ==
  /\ Apply(resetTranscript(Store))
  /\ Did("resetTranscript", "")
  /\ UNCHANGED <<acq, call, recording, closureVars, recognitionRef, deviceError, now, restarts>>

\* the record button starts a call pinned to a source kind; the button
\* offers the start only while isRecording is false
StartCall(source) ==
  /\ ~isRecording
  /\ pendingStart = "none"
  /\ Apply(startCall(Store, source, now))
  /\ recording' = [recording EXCEPT !.callStartTime = TRUE, !.saved = 0,
                                     !.autoSaves = 0]
  /\ restarts' = 0
  /\ Did("startCall", "")
  /\ UNCHANGED <<acq, call, closureVars, recognitionRef, deviceError, now>>

\* a clear-transcript request: clearTranscript of useCallRecording
ClearTranscript ==
  /\ Apply(clearTranscript(Store))
  /\ recording' = clearTimes(recording)
  /\ Did("clearTranscript", "")
  /\ UNCHANGED <<acq, call, closureVars, recognitionRef, deviceError, now, restarts>>

\* startCall() without a source kind: the start time is set and
\* startRecording() runs for the selected kind, up to its await
StartCallDefault ==
  /\ ~isRecording
  /\ pendingStart = "none"
  /\ Apply(startRecordingBegin(Store, "none"))
  /\ recording' = [recording EXCEPT !.callStartTime = TRUE, !.saved = 0,
                                     !.autoSaves = 0]
  /\ restarts' = 0
  /\ Did("startCall", "")
  /\ UNCHANGED <<acq, call, closureVars, recognitionRef, deviceError, now>>

\* a connected audio processor delivers a frame to its callback
AudioFrame(id, audioData) ==
  /\ id \in liveProcessors \cap liveContexts
  /\ Apply(onAudioProcess(Store, frameSource[id], audioData, now))
  /\ Did("audioFrame", "")
  /\ UNCHANGED <<acq, call, recording, closureVars, recognitionRef, deviceError, now, restarts>>

\* getAudioStream is called on its own, once, before the session is used (it
\* reads nothing of the session)
Acquire(source, arg, env) ==
  /\ acq = NoCall
  /\ last.op = "mount"
  /\ acq' = <<[source |-> source, arg |-> arg, env |-> env,
               out |-> getAudioStreamCall(source, arg, env)]>>
  /\ Did("getAudioStream", "")
  /\ UNCHANGED <<stateVars, closureVars, textVars, audioVars, recognitionRef,
                 intentionalStopRef, pendingStart, recState, stopSawFlag, now,
                 restarts, call, recording>>

\* the effect that re-attaches onresult, onerror and onend after a render in
\* which isRecording or updateTranscriptionSegments (audioSource) changed
AttachHandlers ==
  /\ recognitionRef # NULL
  /\ hIsRecording # isRecording \/ hAudioSource # audioSource
  /\ hIsRecording' = isRecording
  /\ hAudioSource' = audioSource
  /\ Did("attachHandlers", "")
  /\ UNCHANGED <<stateVars, textVars, audioVars, recognitionRef,
                 intentionalStopRef, pendingStart, recState, stopSawFlag, now,
                 restarts, acq, call, recording>>

\* the recognizer delivers results: onresult
RecResult(results) ==
  /\ recState \in {"running", "stopping"}
  /\ Len(finalTranscriptRef) + Len(interimResultsRef) <= MaxTranscriptLen
  /\ LET s == handleResult(Store, results, hAudioSource, now)
         accepted == s.finalTranscriptRef # finalTranscriptRef
     IN /\ Apply(s)
        /\ restarts' = IF accepted THEN 0 ELSE restarts
        /\ Did("handleResult", IF accepted THEN "accepted" ELSE "")
  /\ UNCHANGED <<acq, call, recording, closureVars, recognitionRef, deviceError, now>>

\* the recognizer reports an error (its end event follows): onerror
RecError(code) ==
  /\ recState \in {"running", "stopping"}
  /\ Apply(handleError([Store EXCEPT !.recState = "ending"], code))
  /\ Did("handleError", "")
  /\ UNCHANGED <<acq, call, recording, closureVars, recognitionRef, deviceError, now, restarts>>

\* the recognizer ends (after stop(), after an error, or on its own): onend
RecEnd ==
  /\ recState \in {"running", "stopping", "ending"}
  /\ LET restart == handleEndRestarts(Store, hIsRecording)
     IN /\ restart => restarts < MaxRestarts
        /\ Apply(handleEnd([Store EXCEPT !.recState = "idle"], hIsRecording))
        /\ restarts' = IF restart THEN restarts + 1 ELSE restarts
        /\ Did("handleEnd", IF restart THEN "restarted" ELSE "")
  /\ UNCHANGED <<acq, call, recording, closureVars, recognitionRef, deviceError, now>>

\* the inactivity interval finds no result for more than ten seconds
InactivityTimer ==
  /\ isRecording
  /\ ~hasRecognitionEnded
  /\ hasRecognitionEnded' = TRUE
  /\ Did("inactivityTimer", "")
  /\ UNCHANGED <<transcript, isRecording, error, audioSource, deviceError,
                 closureVars, textVars, audioVars, recognitionRef,
                 intentionalStopRef, pendingStart, recState, stopSawFlag, now,
                 restarts, acq, call, recording>>

\* time passes, up to maxNow
TickWithin(maxNow) ==
  /\ now < maxNow
  /\ now' = now + 1
  /\ Did("tick", "")
  /\ UNCHANGED <<stateVars, closureVars, textVars, audioVars, recognitionRef,
                 intentionalStopRef, pendingStart, recState, stopSawFlag,
                 restarts, acq, call, recording>>

Tick == TickWithin(MaxNow)

\* the condition of the auto-save effect of useCallRecording
autoSaveDue ==
  /\ ~isRecording
  /\ hasRecognitionEnded
  /\ recording.callStartTime
  /\ transcript # <<>>
  /\ ~recording.isSaving

\* the auto-save effect runs endCall, up to the await of the save (its
\* condition has a call started and a transcript to save)
AutoSaveEffect ==
  /\ autoSaveDue
  /\ recording.autoSaves < MaxAutoSaves
  /\ Apply(stopRecording(Store, now))
  /\ recording' = [endCallBegun(recording) EXCEPT !.autoSaves = @ + 1]
  /\ Did("endCall", "")
  /\ UNCHANGED <<acq, call, closureVars, recognitionRef, deviceError, now, restarts>>

\* dbService.saveCallRecord settles and endCall runs to its end
SaveSettles(outcome) ==
  /\ recording.isSaving
  /\ Apply(endCallResume(Store, outcome))
  /\ recording' = endCallSettled(recording, outcome)
  /\ Did("saveCallRecord", outcome)
  /\ UNCHANGED <<acq, call, closureVars, recognitionRef, deviceError, now, restarts>>

\* the calls of the duplicate filter so far, when it is the helper called
filterLog == IF call.helper = "filter" THEN call ELSE NoFilterCall

\* the sentence units a call of the filter accepts, in order
cleanedPhrases(text, history) ==
  checkPhrases(breakIntoSentences(text),
               [hasDuplicates |-> FALSE, cleanedPhrases |-> <<>>,
                history |-> history]).cleanedPhrases

\* duplicateDetector.checkForDuplicates(text) on its own; accepted logs the
\* units accepted since the last reset
FilterCall(text) ==
  /\ call.helper \in {"none", "filter"}
  /\ filterLog.n < MaxFilterCalls
  /\ recentPhrases' = checkForDuplicates(text, recentPhrases).history
  /\ call' = [helper |-> "filter", n |-> filterLog.n + 1, text |-> text,
              prevText |-> filterLog.text, before |-> recentPhrases,
              kept |-> cleanedPhrases(text, recentPhrases),
              cleanedText |->
                checkForDuplicates(text, recentPhrases).cleanedText,
              hasDuplicates |->
                checkForDuplicates(text, recentPhrases).hasDuplicates,
              accepted |->
                filterLog.accepted \o cleanedPhrases(text, recentPhrases)]
  /\ Did("checkForDuplicates", "")
  /\ UNCHANGED <<stateVars, closureVars, finalTranscriptRef, interimResultsRef,
                 interimSegmentRef, segmentsRef, speakersRef, diar, audioVars,
                 recognitionRef, intentionalStopRef, pendingStart, recState,
                 stopSawFlag, now, restarts, acq, recording>>

\* duplicateDetector.reset() on its own
FilterReset ==
  /\ call.helper = "filter"
  /\ recentPhrases # <<>>
  /\ recentPhrases' = <<>>
  /\ call' = [NoFilterCall EXCEPT !.n = call.n]
  /\ Did("reset", "")
  /\ UNCHANGED <<stateVars, closureVars, finalTranscriptRef, interimResultsRef,
                 interimSegmentRef, segmentsRef, speakersRef, diar, audioVars,
                 recognitionRef, intentionalStopRef, pendingStart, recState,
                 stopSawFlag, now, restarts, acq, recording>>

\* the calls of the silence detector so far, when it is the helper called
silenceLog == IF call.helper = "silence" THEN call ELSE NoSilenceCall

\* silenceDetector.isSilent(audioData) on its own, at the time now; quietSince
\* logs the time of the first frame of the current run of frames below the
\* threshold, cleared whether a frame not below it has followed a report of
\* silence
SilenceCall(audioData) ==
  /\ call.helper \in {"none", "silence"}
  /\ silence' = isSilentAfter(silence, audioData, now)
  /\ call' = [helper |-> "silence",
              quiet |-> belowSilenceThreshold(audioData),
              quietSince |->
                IF ~belowSilenceThreshold(audioData) THEN NoTime
                ELSE IF silenceLog.quiet THEN silenceLog.quietSince ELSE now,
              at |-> now,
              out |-> isSilent(silence, audioData, now),
              cleared |->
                \/ silenceLog.cleared
                \/ silenceLog.out /\ ~belowSilenceThreshold(audioData)]
  /\ Did("isSilent", "")
  /\ UNCHANGED <<stateVars, closureVars, textVars, audioStreamRef,
                 audioContextRef, audioProcessorCleanupRef, nextStreamId,
                 liveAudio, liveVideo, liveContexts, liveProcessors,
                 frameSource, recognitionRef, intentionalStopRef, pendingStart,
                 recState, stopSawFlag, now, restarts, acq, recording>>

\* the calls of the diarizer so far, when it is the helper called
diarLog == IF call.helper = "diar" THEN call ELSE NoDiarCall

\* speakerDiarization.detectSpeakerChange(audioData) on its own; energies logs
\* the energies of the frames since the reset
DiarCall(audioData) ==
  /\ call.helper \in {"none", "diar"}
  /\ diarLog.n < MaxDiarFrames
  /\ diar' = detectSpeakerChange(diar, audioData).diar
  /\ call' = [helper |-> "diar", n |-> diarLog.n + 1,
              energies |-> diarLog.energies \cup {calculateEnergy(audioData)},
              out |-> detectSpeakerChange(diar, audioData).speakerId]
  /\ Did("detectSpeakerChange", "")
  /\ UNCHANGED <<stateVars, closureVars, finalTranscriptRef, interimResultsRef,
                 interimSegmentRef, segmentsRef, speakersRef, recentPhrases,
                 audioVars, recognitionRef, intentionalStopRef, pendingStart,
                 recState, stopSawFlag, now, restarts, acq, recording>>

\* getSpeechErrorMessage(errorCode) on its own
MessageCall(errorCode) ==
  /\ call.helper = "none"
  /\ call' = [helper |-> "message", code |-> errorCode,
              out |-> getSpeechErrorMessage(errorCode)]
  /\ Did("getSpeechErrorMessage", "")
  /\ UNCHANGED <<stateVars, closureVars, textVars, audioVars, recognitionRef,
                 intentionalStopRef, pendingStart, recState, stopSawFlag, now,
                 restarts, acq, recording>>

\* start requests are for the selected source kind here; the pinned ones are
\* in SwitchNext, FrameNext and AcquireNext
Next ==
  \/ StartRecording("none")
  \/ \E env \in Envs : StartResume(env)
  \/ StopRecording
  \/ AttachHandlers
  \/ \E results \in ResultEvents : RecResult(results)
  \/ \E code \in ErrorCodes : RecError(code)
  \/ RecEnd

Spec == Init /\ [][Next]_vars

(***************************************************************************)
(* The session with its source switches: changeAudioSource, startCall,     *)
(* and an environment that hands out a second stream.                      *)
(***************************************************************************)
MaxSwitchStreams == 2

SwitchNext ==
  \/ \E source \in RequestedSources \cup {"none"} : StartRecording(source)
  \/ \E env \in Envs : StartResumeWithin(env, MaxSwitchStreams)
  \/ StopRecording
  \/ \E source \in RequestedSources : ChangeAudioSource(source)
  \/ \E source \in RequestedSources : StartCall(source)
  \/ AttachHandlers
  \/ \E code \in ErrorCodes : RecError(code)
  \/ RecEnd

SwitchSpec == Init /\ [][SwitchNext]_vars

(***************************************************************************)
(* The session with its audio frames.                                      *)
(***************************************************************************)
FrameNext ==
  \/ \E source \in RequestedSources \cup {"none"} : StartRecording(source)
  \/ \E env \in Envs : StartResume(env)
  \/ StopRecording
  \/ RecResult(<<Final(<<"a">>)>>)
  \/ \E id \in liveProcessors, audioData \in Frames : AudioFrame(id, audioData)

FrameSpec == Init /\ [][FrameNext]_vars

(***************************************************************************)
(* Acquisition: either getAudioStream called on its own for every source   *)
(* kind, options argument and answer of the browser, or the start requests *)
(* that call it.                                                           *)
(***************************************************************************)
AcquireNext ==
  \/ \E source \in AudioSources, arg \in CallArgs, env \in Envs :
       Acquire(source, arg, env)
  \/ \E source \in AudioSources \cup {"none"} :
       acq = NoCall /\ StartRecording(source)
  \/ \E env \in Envs : acq = NoCall /\ StartResume(env)

AcquireSpec == Init /\ [][AcquireNext]_vars

\* the session with its audio frames, for every source kind
AnalysisNext ==
  \/ \E source \in AudioSources : StartRecording(source)
  \/ \E env \in Envs : StartResume(env)
  \/ StopRecording
  \/ \E id \in liveProcessors, audioData \in Frames : AudioFrame(id, audioData)

AnalysisSpec == Init /\ [][AnalysisNext]_vars

\* the result events of the session with a clock: those of ResultEvents and
\* a second final text
SegmentEvents == ResultEvents \cup { << Final(<<"b">>) >> }

\* the session with a clock: results and stops while time passes
SegmentNext ==
  \/ StartRecording("none")
  \/ \E env \in Envs : StartResume(env)
  \/ StopRecording
  \/ \E results \in SegmentEvents : RecResult(results)
  \/ Tick

SegmentSpec == Init /\ [][SegmentNext]_vars

\* the call with its automatic save: a call is started, recognition ends on
\* its own, and the save of the call record succeeds or fails
SaveNext ==
  \/ StartCallDefault
  \/ \E env \in Envs : StartResume(env)
  \/ AttachHandlers
  \/ RecResult(<<Final(<<"a">>)>>)
  \/ RecEnd
  \/ AutoSaveEffect
  \/ \E outcome \in SaveOutcomes : SaveSettles(outcome)

SaveSpec == Init /\ [][SaveNext]_vars

\* the session with its clear-transcript requests
ClearNext ==
  \/ StartRecording("none")
  \/ \E env \in Envs : StartResume(env)
  \/ \E results \in ResultEvents : RecResult(results)
  \/ ClearTranscript

ClearSpec == Init /\ [][ClearNext]_vars

\* the helpers called on their own; a behaviour calls one helper only
HelperNext ==
  \/ \E text \in FilterTexts : FilterCall(text)
  \/ FilterReset
  \/ \E audioData \in Frames : SilenceCall(audioData)
  \/ call.helper = "silence" /\ TickWithin(MaxSilenceNow)
  \/ \E audioData \in DiarFrames : DiarCall(audioData)
  \/ \E errorCode \in ErrorCodeInputs : MessageCall(errorCode)

HelperSpec == Init /\ [][HelperNext]_vars

(***************************************************************************)
(* Properties of the transcript                                            *)
(***************************************************************************)
\* the texts of the finalized segments, in order
segmentTexts == [i \in 1..Len(segmentsRef) |-> segmentsRef[i].text]

\* each text followed by one space, as handleResult appends final text
RECURSIVE eachFollowedBySpace(_)
eachFollowedBySpace(texts) ==
  IF texts = <<>> THEN <<>>
  ELSE Head(texts) \o <<" ">> \o eachFollowedBySpace(Tail(texts))

\* whether u occurs in s as a contiguous run of characters
Contains(s, u) ==
  \E i \in 0..(Len(s) - Len(u)) : SubSeq(s, i + 1, i + Len(u)) = u

\* C1: in every state the exposed transcript is the finalized segment texts
\* joined by spaces, followed by the interim buffer (with the separating
\* space written either after every segment text or only between the parts).
C1_TranscriptIsSegmentsPlusInterim ==
  transcript \in
    { eachFollowedBySpace(segmentTexts) \o interimResultsRef,
      join(filterNonEmpty(Append(segmentTexts, interimResultsRef)), <<" ">>) }

\* the sentence units of a final text that the duplicate filter does not
\* classify as duplicates of the phrase history
nonDuplicateUnits(text, history) ==
  checkPhrases(breakIntoSentences(text),
               [hasDuplicates |-> FALSE, cleanedPhrases |-> <<>>,
                history |-> history]).cleanedPhrases

\* C2: whenever the recognizer delivers a final result, every sentence unit
\* of it that is not a duplicate of the phrase history is, once the result is
\* handled, part of the finalized transcript and of a finalized segment.
C2_NonDuplicateUnitsKept ==
  [][\A results \in ResultEvents :
       (RecResult(results) /\ results[1].isFinal) =>
         \A u \in Range(nonDuplicateUnits(results[1].transcript,
                                          recentPhrases)) :
           /\ Contains(finalTranscriptRef', u)
           /\ \E k \in 1..Len(segmentsRef') : Contains(segmentsRef'[k].text, u)
    ]_vars

(***************************************************************************)
(* Properties of the restart policy                                        *)
(***************************************************************************)
\* C3: the end event of an explicit stop (the intentional-stop flag is set,
\* no start request has been made since) never makes the session call the
\* recognizer's start, whether or not the handlers were re-attached between
\* the stop and the event.
C3_NoRestartAfterStop ==
  [][(RecEnd /\ intentionalStopRef) => recState' # "running"]_vars

FatalCodes == {"not-allowed", "service-not-allowed",
               "language-not-supported", "bad-grammar"}

\* a fatal error has been reported and no start request was made since
FatalReported == error \in {getSpeechErrorMessage(c) : c \in FatalCodes}

\* C4: a fatal error exposes its mapped message and clears the recording
\* flag, and the end event that follows it does not restart the recognizer.
C4_FatalErrorEndsSession ==
  [][/\ \A code \in ErrorCodes \cap FatalCodes :
          RecError(code) =>
            combinedError' = getSpeechErrorMessage(code) /\ ~isRecording'
     /\ (RecEnd /\ FatalReported) => recState' # "running"
    ]_vars

\* C5: when the recognizer ends on its own while the session is recording
\* (no intentional stop, attempts remaining), the recognizer is started again
\* and the recording flag is still true.
C5_UnintentionalEndRestarts ==
  [][(RecEnd /\ isRecording /\ ~intentionalStopRef /\ recState = "running") =>
       recState' = "running" /\ isRecording'
    ]_vars

\* the configured number of restart attempts
maxAttempts == 2

\* C6: once maxAttempts automatic restarts have happened in a row with no
\* accepted result between them, the session has failed: an error is exposed,
\* the recording flag is false and the recognizer is not running again.
C6_RestartsExhaustedFails ==
  restarts >= maxAttempts =>
    combinedError # NULL /\ ~isRecording /\ recState # "running"

TransientCodes == {"no-speech", "network", "aborted"}

\* C8: a transient error reported while the session is recording without an
\* error, with attempts remaining and no intentional stop, leaves the error
\* null and the recording flag true.
C8_TransientErrorAbsorbed ==
  [][\A code \in ErrorCodes \cap TransientCodes :
       (RecError(code) /\ ~intentionalStopRef /\ restarts < maxAttempts
          /\ combinedError = NULL /\ isRecording) =>
         combinedError' = NULL /\ isRecording'
    ]_vars

(***************************************************************************)
(* Properties of stopRecording                                             *)
(***************************************************************************)
\* C9: a stop request sets the intentional-stop flag before it calls the
\* recognizer's stop, and when it returns the session references no stream,
\* processor or context, and the ones it held are stopped, disconnected and
\* closed.
C9_StopReleasesEverything ==
  [][StopRecording =>
       /\ stopSawFlag'
       /\ recognitionRef # NULL => intentionalStopRef'
       /\ audioStreamRef' = NoRef
       /\ audioProcessorCleanupRef' = NoRef
       /\ audioContextRef' = NoRef
       /\ audioStreamRef \notin liveAudio'
       /\ audioProcessorCleanupRef \notin liveProcessors'
       /\ audioContextRef \notin liveContexts'
    ]_vars

\* a stop request has just released the stream, processor and context of a
\* running session
C9_Witness ==
  /\ last = [op |-> "stopRecording", note |-> "released"]
  /\ recState = "stopping"
  /\ stopSawFlag
  /\ audioStreamRef = NoRef /\ liveAudio = {}
  /\ audioContextRef = NoRef /\ liveContexts = {}
  /\ audioProcessorCleanupRef = NoRef /\ liveProcessors = {}

\* C10: for every source kind, a stop request made while the interim buffer
\* is non-empty empties the buffer and appends one segment carrying the
\* buffered text to the segment list.
C10_StopFlushesInterimToSegment ==
  [][(StopRecording /\ recognitionRef # NULL /\ interimResultsRef # <<>>) =>
       /\ interimResultsRef' = <<>>
       /\ Len(segmentsRef') = Len(segmentsRef) + 1
       /\ SubSeq(segmentsRef', 1, Len(segmentsRef)) = segmentsRef
       /\ segmentsRef'[Len(segmentsRef')].text = interimResultsRef
    ]_vars

(***************************************************************************)
(* Properties of the session: flush at a restart, reset at a start,        *)
(* switches of the source kind, acquisition and release                    *)
(***************************************************************************)
\* C11: when the recognizer ends unintentionally with a non-empty interim
\* buffer and is restarted, the buffered text has first been flushed: the
\* buffer is empty and a segment carrying the text has been appended.
C11_EndFlushesInterimBeforeRestart ==
  [][(RecEnd /\ ~intentionalStopRef /\ interimResultsRef # <<>>
        /\ recState' = "running") =>
       /\ interimResultsRef' = <<>>
       /\ Len(segmentsRef') = Len(segmentsRef) + 1
       /\ segmentsRef'[Len(segmentsRef')].text = interimResultsRef
    ]_vars

\* C12: right after an accepted start request (up to its wait for the
\* stream) the interim buffer, the segment list, the duplicate history and
\* the speakers list are empty, the intentional-stop flag is false, and the
\* silence detector and the diarizer are in their initial states.
C12_StartResetsSessionState ==
  [][\A source \in RequestedSources \cup {"none"} :
       (StartRecording(source) /\ recognitionRef # NULL) =>
         /\ interimResultsRef' = <<>> /\ interimSegmentRef' = <<>>
         /\ finalTranscriptRef' = <<>>
         /\ segmentsRef' = <<>>
         /\ recentPhrases' = <<>>
         /\ speakersRef' = <<>>
         /\ ~intentionalStopRef'
         /\ silence' = SilenceInit
         /\ diar' = DiarInit
    ]_vars

\* a start request has just reset what a stopped session with a segment, a
\* phrase history, a speaker, a silence start and diarizer state left behind
C12_Witness ==
  /\ last = [op |-> "startRecording", note |-> "cleared"]
  /\ pendingStart # "none"
  /\ transcript # <<>>
  /\ segmentsRef = <<>> /\ recentPhrases = <<>> /\ speakersRef = <<>>
  /\ ~intentionalStopRef
  /\ silence = SilenceInit /\ diar = DiarInit

\* C13: a switch of the source kind while recording releases the stream,
\* processor and context of the old session before the new acquisition
\* begins, and the end event that the stop of the old session produces is
\* not handled as an unintentional end: it neither marks the recognition as
\* ended nor restarts the recognizer.
C13_SwitchStopsOldSessionFirst ==
  [][/\ \A source \in RequestedSources :
          (ChangeAudioSource(source) /\ isRecording) =>
            /\ audioStreamRef \notin liveAudio'
            /\ audioProcessorCleanupRef \notin liveProcessors'
            /\ audioContextRef \notin liveContexts'
            /\ pendingStart' # "none" => audioStreamRef' = NoRef
     /\ (RecEnd /\ last.op = "changeAudioSource" /\ recState = "stopping") =>
          ~hasRecognitionEnded' /\ recState' # "running"
    ]_vars

\* C14: a start of a call pinned to the source kind k begins one
\* acquisition, and it is for k.
C14_PinnedStartAcquiresPinnedKind ==
  [][\A k \in RequestedSources :
       (StartCall(k) /\ recognitionRef # NULL) => pendingStart' = k
    ]_vars

\* C15: in every state at most one acquired stream has live tracks, and it
\* is the stream the session references.
C15_OneLiveStream ==
  Cardinality(liveAudio) <= 1 /\ liveAudio \subseteq {audioStreamRef}

\* C16: after an explicit stop, after a source change and after a fatal
\* recognizer error no acquired audio track is live, no audio processor is
\* connected and no audio context is open.
C16_ReleasedAfterStopSwitchFailure ==
  [][(\/ StopRecording /\ recognitionRef # NULL
      \/ \E source \in RequestedSources : ChangeAudioSource(source)
      \/ \E code \in ErrorCodes \cap FatalCodes : RecError(code)) =>
       liveAudio' = {} /\ liveProcessors' = {} /\ liveContexts' = {}
    ]_vars

\* what a release must leave alone the second time: the references and the
\* resources they name, the transcript, the segments and the interim buffer
sessionView(s) ==
  [audioStreamRef |-> s.audioStreamRef, audioContextRef |-> s.audioContextRef,
   audioProcessorCleanupRef |-> s.audioProcessorCleanupRef,
   liveAudio |-> s.liveAudio, liveContexts |-> s.liveContexts,
   liveProcessors |-> s.liveProcessors,
   transcript |-> s.transcript, finalTranscriptRef |-> s.finalTranscriptRef,
   segments |-> s.st.segs, interimResultsRef |-> s.interimResultsRef,
   interimSegmentRef |-> s.st.interimSeg]

\* C17: in every state, a second stop request right after a stop request,
\* and a second release of a source change right after the first, change
\* nothing of the references, the transcript, the segments and the interim
\* buffer.
C17_ReleaseIdempotent ==
  /\ sessionView(stopRecording(stopRecording(Store, now), now))
       = sessionView(stopRecording(Store, now))
  /\ sessionView(releaseResources(releaseResources(Store)))
       = sessionView(releaseResources(Store))

\* a stop request has just released the stream of a session that has a
\* transcript, and a further stop request changes nothing
C17_Witness ==
  /\ last = [op |-> "stopRecording", note |-> "released"]
  /\ transcript # <<>> /\ finalTranscriptRef = transcript
  /\ interimResultsRef = <<>>
  /\ audioStreamRef = NoRef
  /\ sessionView(stopRecording(Store, now)) = sessionView(Store)

\* C18: a call for a loopback kind whose display capture yields no audio
\* track or raises asks for a direct-input capture with the merged options
\* (the ones the display capture was asked with), and returns its stream
\* whenever that capture succeeds.
C18_LoopbackFallsBack ==
  (acq # NoCall /\ acq[1].source \in LoopbackSources
     /\ acq[1].env.display \in {"noaudio", "throw"}) =>
    /\ acq[1].out.requests =
         << displayMediaRequest(
              mergedOptions(acq[1].source, optionsParameter(acq[1].arg))),
            userMediaRequest(
              mergedOptions(acq[1].source, optionsParameter(acq[1].arg))) >>
    /\ acq[1].env.userMedia = "ok" =>
         acq[1].out.completion = "return" /\ acq[1].out.path = "direct"

\* a meeting capture whose display capture raised returned the stream of the
\* direct-input capture
C18_Witness ==
  /\ acq # NoCall
  /\ acq[1].source = "meeting"
  /\ acq[1].env.display = "throw"
  /\ acq[1].env.userMedia = "ok"
  /\ acq[1].out.path = "direct"
  /\ Len(acq[1].out.requests) = 2

\* the caller passed no override: no options argument, or an empty object
NoOverrides(arg) == ~arg.given \/ DOMAIN arg.value = {}

\* C19: a call without caller overrides asks for its first capture with echo
\* cancellation and automatic gain control both disabled for a loopback
\* kind, and both enabled for a direct-input kind.
C19_LoopbackDisablesEchoAndGain ==
  (acq # NoCall /\ NoOverrides(acq[1].arg)) =>
    IF acq[1].source \in LoopbackSources
    THEN /\ ~acq[1].out.requests[1].audio.echoCancellation
         /\ ~acq[1].out.requests[1].audio.autoGainControl
    ELSE /\ acq[1].out.requests[1].audio.echoCancellation
         /\ acq[1].out.requests[1].audio.autoGainControl

C21_ResultTellsThePath ==
  (acq # NoCall /\ acq[1].source \in LoopbackSources
     /\ acq[1].out.path = "display") =>
    \A env \in Envs :
      getAudioStreamCall(acq[1].source, acq[1].arg, env).path = "direct" =>
        returnValue(getAudioStreamCall(acq[1].source, acq[1].arg, env))
          # returnValue(acq[1].out)

\* the sentence units of the candidate texts
FilterUnits == UNION {Range(breakIntoSentences(text)) : text \in FilterTexts}

\* the cleaned text of a second call right after a call with the same text
secondCleanedText(text, history) ==
  checkForDuplicates(text, checkForDuplicates(text, history).history).cleanedText

\* C22 (as stated): for every candidate text and every state of the phrase
\* history, the second of two calls of the filter with the text, one right
\* after the other, returns an empty cleaned text.
C22_SecondCallIsEmpty ==
  \A text \in FilterTexts : secondCleanedText(text, recentPhrases) = <<>>

\* C22 (amended): the second of two such calls returns an empty cleaned text
\* whenever the history has room for the units the first call accepts, so
\* that the first call evicts nothing.
C22_SecondCallIsEmptyWithoutEviction ==
  \A text \in FilterTexts :
    Len(recentPhrases) + Len(cleanedPhrases(text, recentPhrases))
        <= maxPhraseHistory
      => secondCleanedText(text, recentPhrases) = <<>>

\* the filter was called twice with the same text: the first call accepted a
\* unit, the second returned an empty cleaned text
C22_Witness ==
  /\ call.helper = "filter"
  /\ call.n = 2
  /\ call.prevText = call.text
  /\ call.accepted # <<>>
  /\ call.kept = <<>>
  /\ call.cleanedText = <<>>

\* word-set Jaccard similarity of at least 0.75 with a unit of the history
similarEnough(phrase, history) ==
  \E i \in 1..Len(history) :
    similarityScore(phrase, history[i]).num * ThresholdDen
      >= ThresholdNum * similarityScore(phrase, history[i]).den

\* C23: a sentence unit is classified as a duplicate exactly when its
\* word-set Jaccard similarity with some unit of the history is at least
\* 0.75 (3 of 4 union words shared included).
C23_DuplicateFromThreeQuarters ==
  \A phrase \in FilterUnits :
    isDuplicate(phrase, recentPhrases) <=> similarEnough(phrase, recentPhrases)

\* the history after each of the first i sentence units of a candidate, for
\* i from 0: a unit that is no duplicate of the history at its turn is pushed
historiesDuring(phrases, before) ==
  LET H[i \in 0..Len(phrases)] ==
        IF i = 0 THEN before
        ELSE IF isDuplicate(phrases[i], H[i - 1]) THEN H[i - 1]
        ELSE addToHistory(phrases[i], H[i - 1])
  IN H

\* the indices of the units that are no duplicates at their turn
acceptedAt(phrases, before) ==
  {i \in 1..Len(phrases) :
     ~isDuplicate(phrases[i], historiesDuring(phrases, before)[i - 1])}

C30_HistoryIsLastAccepted ==
  [][/\ (\E text \in FilterTexts : FilterCall(text)) =>
          /\ Len(recentPhrases') <= maxPhraseHistory
          /\ recentPhrases' = lastUnits(call'.accepted, maxPhraseHistory)
     /\ FilterReset => recentPhrases' = <<>>
    ]_vars

\* more than 10 units have been accepted since the reset and the history
\* holds 10 of them: the oldest was evicted
C30_Witness ==
  /\ call.helper = "filter"
  /\ Len(call.accepted) > maxPhraseHistory
  /\ Len(recentPhrases) = maxPhraseHistory
  /\ recentPhrases[1] # call.accepted[1]

\* C24: for a frame below the silence threshold that continues a run of such
\* frames, the detector reports silence exactly when the time since the
\* first frame of the run is at least the minimum duration (false while it
\* is less, true from the frame where it is equal or more).
C24_SilenceFromMinimumDuration ==
  (call.helper = "silence" /\ last.op = "isSilent" /\ call.quiet) =>
    (call.out <=> call.at - call.quietSince >= minSilenceDuration)

\* C25: while all frames given to the diarizer since the reset have had the
\* same energy, the speaker it reports and holds is the first one and its
\* stability counter is 0.
C25_ConstantEnergyKeepsSpeaker ==
  (call.helper = "diar" /\ Cardinality(call.energies) = 1) =>
    /\ call.out = DiarInit.speakerId
    /\ diar.speakerId = DiarInit.speakerId
    /\ diar.lastSpeakerId = DiarInit.lastSpeakerId
    /\ diar.stabilityCounter = 0

\* four frames or more of the same energy above the floor have been given
\* to the diarizer
C25_Witness ==
  /\ call.helper = "diar"
  /\ call.n >= 4
  /\ call.energies = {30}
  /\ diar.prevEnergy = 30
  /\ diar.speakerId = 1 /\ diar.stabilityCounter = 0

\* C28: each of the eight known codes maps to its own fixed non-empty
\* message, and every other code to the generic fallback message.
C28_ErrorMessagesTotal ==
  /\ \A c1, c2 \in KnownErrorCodes :
       c1 # c2 => errorMessages(c1) # errorMessages(c2)
  /\ call.helper = "message" =>
       IF call.code \in KnownErrorCodes
       THEN call.out = errorMessages(call.code) /\ call.out # ""
       ELSE call.out = "An unknown error occurred."

\* C26: every frame an audio processor delivers is given to the silence
\* detector, and it is given to the diarizer exactly when the source kind of
\* the session is a loopback kind (system, meeting, multimedia, voip).
C26_FramesReachDetectors ==
  [][\A id \in liveProcessors, audioData \in Frames :
       AudioFrame(id, audioData) =>
         /\ silence' = isSilentAfter(silence, audioData, now)
         /\ diar' = IF frameSource[id] \in LoopbackSources
                    THEN detectSpeakerChange(diar, audioData).diar
                    ELSE diar
    ]_vars

\* one sequence is the beginning of another
IsPrefix(a, b) == Len(a) <= Len(b) /\ SubSeq(b, 1, Len(a)) = a

\* C27: on every step but a start request (which begins a session) the
\* segment list keeps what it held as its beginning; segments appended by a
\* result event carry the time of the event; and the timestamps along the
\* list never decrease.
C27_SegmentsAppendOnly ==
  [][/\ StartRecording("none") \/ IsPrefix(segmentsRef, segmentsRef')
     /\ (\E results \in SegmentEvents : RecResult(results)) =>
          \A i \in (Len(segmentsRef) + 1)..Len(segmentsRef') :
            segmentsRef'[i].timestamp = now
     /\ \A i, j \in 1..Len(segmentsRef') :
          i <= j => segmentsRef'[i].timestamp <= segmentsRef'[j].timestamp
    ]_vars

\* a list of two segments, the second finalized later than the first
C27_Witness ==
  /\ Len(segmentsRef) >= 2
  /\ segmentsRef[1].timestamp < segmentsRef[2].timestamp
  /\ segmentsRef[1].text # segmentsRef[2].text

(***************************************************************************)
(* Properties of the merged capture options, the detectors' debounce and   *)
(* the session's late events, failures and views                           *)
(***************************************************************************)
\* the keys the caller of getAudioStream supplied, with their values
suppliedOptions(arg) == IF arg.given THEN arg.value ELSE NoOptions.value

\* C31: in the capture options of the first request of a call, every option
\* key the caller supplied has the caller's value; every other key has the
\* value of the source kind's override when the kind defines one, and the
\* built-in default otherwise.
C31_MergePrecedence ==
  acq # NoCall =>
    \A k \in DOMAIN DEFAULT_OPTIONS :
      acq[1].out.requests[1].audio[k] =
        IF k \in DOMAIN suppliedOptions(acq[1].arg)
        THEN suppliedOptions(acq[1].arg)[k]
        ELSE IF k \in DOMAIN SOURCE_SPECIFIC_OPTIONS(acq[1].source)
             THEN SOURCE_SPECIFIC_OPTIONS(acq[1].source)[k]
             ELSE DEFAULT_OPTIONS[k]

\* C32: a call of the silence detector that follows a report of silence with
\* a frame below the threshold reports silence again; a call with a frame
\* not below the threshold reports no silence and leaves the detector with
\* no latch and no timer; and silence is reported only when the minimum
\* duration has passed since the first frame of the current run of frames
\* below the threshold.
C32_SilenceLatch ==
  [][\A audioData \in Frames :
       SilenceCall(audioData) =>
         /\ (silenceLog.out /\ belowSilenceThreshold(audioData)) => call'.out
         /\ ~belowSilenceThreshold(audioData) =>
              /\ ~call'.out
              /\ silence' = SilenceInit
         /\ call'.out =>
              /\ call'.quietSince # NoTime
              /\ call'.at - call'.quietSince >= minSilenceDuration
    ]_vars

\* silence was reported, a frame not below the threshold cleared it, and a
\* later run of frames below the threshold has brought the report back
C32_Witness ==
  /\ call.helper = "silence"
  /\ call.cleared
  /\ call.out
  /\ silence.isCurrentlySilent
  /\ call.quietSince > 1

\* a frame at or above the energy floor whose normalized energy ratio to the
\* previous frame is below the change threshold
qualifies(d, audioData) ==
  ratioChanged(calculateEnergy(audioData),
               ratioDenominator(d.prevEnergy, calculateEnergy(audioData)))

\* C33: for a frame at or above the energy floor, the diarizer toggles the
\* speaker exactly when the frame qualifies and is the fourth qualifying
\* frame in a row (the counter was 3), and then the counter is 0; a
\* qualifying frame before that adds one to the counter; a frame that does
\* not qualify sets the counter to 0; the speaker is always 1 or 2 and the
\* counter is always between 0 and 3.
C33_ToggleAfterDebounce ==
  [][/\ diar.speakerId \in {1, 2} /\ diar'.speakerId \in {1, 2}
     /\ diar.stabilityCounter \in 0..StabilityFrames
     /\ diar'.stabilityCounter \in 0..StabilityFrames
     /\ \A audioData \in Frames :
          (DiarCall(audioData) /\ calculateEnergy(audioData) >= energyThreshold)
            => /\ diar'.speakerId # diar.speakerId
                    <=> (qualifies(diar, audioData)
                           /\ diar.stabilityCounter = StabilityFrames)
               /\ diar'.stabilityCounter =
                    IF ~qualifies(diar, audioData) THEN 0
                    ELSE IF diar.stabilityCounter = StabilityFrames THEN 0
                    ELSE diar.stabilityCounter + 1
               /\ diar'.lastSpeakerId = diar'.speakerId
    ]_vars

\* the fourth qualifying frame in a row has made the diarizer toggle to the
\* second speaker
C33_Witness ==
  /\ call.helper = "diar"
  /\ last.op = "detectSpeakerChange"
  /\ diar.speakerId = 2
  /\ diar.stabilityCounter = 0
  /\ call.out = 2
  /\ call.n = StabilityFrames + 2

\* stop() has been called on the running recognizer by a stop request, its
\* end event is pending, and no start request has followed
stopRequested == recState = "stopping" /\ intentionalStopRef

\* C34: a result event delivered after a stop request and before the next
\* start request leaves the exposed transcript and the segment list as they
\* were.
C34_LateResultIgnored ==
  [][(stopRequested /\ \E results \in SegmentEvents : RecResult(results))
       => /\ transcript' = transcript
          /\ segmentsRef' = segmentsRef
    ]_vars

\* C35: between events, the recording flag is true whenever the recognizer
\* is running.
C35_RunningImpliesRecording ==
  recState = "running" => isRecording

\* C36: a start request whose getAudioStream returned a stream and whose
\* recognizer start raised (the recognizer was not idle) ends with the error
\* set, the recording flag false, and the stream, the audio processor and
\* the audio context it created released.
C36_FailedStartReleases ==
  [][\A env \in Envs :
       (/\ StartResumeWithin(env, MaxSwitchStreams)
        /\ getAudioStream(pendingStart, env).path # "none"
        /\ recState # "idle")
         => /\ error' = "Failed to start speech recognition. Please try again."
            /\ ~isRecording'
            /\ nextStreamId \notin liveAudio'
            /\ nextStreamId \notin liveProcessors'
            /\ nextStreamId \notin liveContexts'
    ]_vars

\* C37: when getAudioStream has returned, no track it obtained is left live
\* outside the stream it returned: a call on its own leaves no video track
\* of the display capture live, and a session holds no live video track
\* (the stream a session stores has audio tracks only).
C37_NoTrackLeftBehind ==
  /\ acq # NoCall => ~acq[1].out.video
  /\ liveVideo = {}

\* C38: the call records persisted for a call are at most one, and when the
\* save of an automatic end of call fails, the saving flag's return to false
\* does not make the auto-save effect due again.
C38_AutoSaveBounded ==
  [][/\ recording'.saved <= 1
     /\ SaveSettles("failed") => ~autoSaveDue'
    ]_vars

\* C39: a result event whose final text is accepted (and tagged with a
\* speaker as a new segment) leaves the diarization state as it was:
\* previous energy, stability counter and speaker.
C39_ResultKeepsDiarization ==
  [][(RecResult(<<Final(<<"a">>)>>) /\ last'.note = "accepted")
       => /\ diar'.prevEnergy = diar.prevEnergy
          /\ diar'.stabilityCounter = diar.stabilityCounter
          /\ diar'.speakerId = diar.speakerId
    ]_vars

\* C40: right after a clear-transcript request, the transcript, the segment
\* list, the interim text and the speakers list are all empty.
C40_ClearEmptiesEveryView ==
  last.op = "clearTranscript" =>
    /\ transcript = <<>>
    /\ segmentsRef = <<>>
    /\ interimSegmentRef = <<>>
    /\ speakersRef = <<>>

====
